---- MODULE Spec2Model ----
(***************************************************************************)
(* Rocket state service: the in-memory store (internal/rocket/store.go),   *)
(* the aggregation engine and listing service (internal/rocket/service.go) *)
(* the data model (State, TelemetryMessage) and the HTTP adapter           *)
(* (StrictServer: IngestMessage, ListRockets, GetRocketState).             *)
(*                                                                         *)
(* Callers are goroutines.  Every store call is modelled step by step:     *)
(* taking the RWMutex, touching the map, releasing the mutex.  A caller of *)
(* ProcessMessage reads through GetRocketByID, decides, and writes through *)
(* SaveRocket, exactly as the code does, so the read and the write are     *)
(* separate critical sections.                                             *)
(***************************************************************************)
EXTENDS Integers, Sequences, FiniteSets, TLC

(* ------------------------------ bounds --------------------------------- *)

\* number of concurrent callers (goroutines)
MaxProcs == 2
\* number of mutating calls (ProcessMessage / SaveRocket) started in a run
MaxCalls == 2
\* int64 is represented on IntBits bits, two's complement
IntBits == 3
\* number of rockets in the store when sorted listings are taken
MaxList == 3

Procs == 1..MaxProcs
IDs == {1, 2}
SeqNums == {1, 2}
Times == {1, 2}

(* ------------------------------ data model ----------------------------- *)

\* a Go pointer: nil, or a pointer to a value
Nil == <<>>
Ptr(v) == <<v>>
Deref(p) == p[1]

Pow2(n) == 2 ^ n

\* wrap-around of signed integer arithmetic
Int64(x) == ((x + Pow2(IntBits - 1)) % Pow2(IntBits)) - Pow2(IntBits - 1)

StatusLaunched == "LAUNCHED"
StatusExploded == "EXPLODED"

MessageTypeExploded == "RocketExploded"
MessageTypeLaunched == "RocketLaunched"
MessageTypeMissionChanged == "RocketMissionChanged"
MessageTypeSpeedDecreased == "RocketSpeedDecreased"
MessageTypeSpeedIncreased == "RocketSpeedIncreased"

\* the zero value of State (uuid.Nil is 0)
ZeroState ==
  [ID |-> 0, Type |-> "", CurrentSpeed |-> 0, Mission |-> "", Status |-> "",
   Reason |-> Nil, LastUpdateTime |-> 0, LastProcessedMessageNumber |-> 0]

\* the zero value of Message: every optional field absent
ZeroMessage ==
  [By |-> Nil, LaunchSpeed |-> Nil, Mission |-> Nil, NewMission |-> Nil,
   Reason |-> Nil, Type |-> Nil]

ZeroTelemetry ==
  [Metadata |-> [Channel |-> 0, MessageNumber |-> 0, MessageTime |-> 0,
                 MessageType |-> ""],
   Message |-> ZeroMessage]

\* payloads, one per kind
Launched ==
  <<MessageTypeLaunched,
    [ZeroMessage EXCEPT !.Type = Ptr("Falcon-9"), !.LaunchSpeed = Ptr(1),
                        !.Mission = Ptr("ARTEMIS")]>>
SpeedIncreased == <<MessageTypeSpeedIncreased, [ZeroMessage EXCEPT !.By = Ptr(2)]>>
SpeedDecreased == <<MessageTypeSpeedDecreased, [ZeroMessage EXCEPT !.By = Ptr(3)]>>
MissionChanged ==
  <<MessageTypeMissionChanged, [ZeroMessage EXCEPT !.NewMission = Ptr("GEMINI")]>>
Exploded == <<MessageTypeExploded, [ZeroMessage EXCEPT !.Reason = Ptr("fuel leak")]>>
\* a SpeedIncreased payload without its amount
SpeedIncreasedNoBy == <<MessageTypeSpeedIncreased, ZeroMessage>>

Telemetry(c, n, t, b) ==
  [Metadata |-> [Channel |-> c, MessageNumber |-> n, MessageTime |-> t,
                 MessageType |-> b[1]],
   Message |-> b[2]]

\* the messages delivered one call at a time
TelemetryMessages ==
  { Telemetry(c, n, t, b) : c \in IDs, n \in SeqNums, t \in Times,
      b \in {Launched, SpeedIncreased, SpeedDecreased, MissionChanged, Exploded,
             SpeedIncreasedNoBy} }

\* the values handed to SaveRocket by direct callers of the store: for each
\* identifier two values that differ in every other field
SaveStates ==
  { [ID |-> i, Type |-> "Falcon-9", CurrentSpeed |-> 1, Mission |-> "ARTEMIS",
     Status |-> "LAUNCHED", Reason |-> Nil, LastUpdateTime |-> 1,
     LastProcessedMessageNumber |-> 1] : i \in IDs }
  \cup
  { [ID |-> i, Type |-> "Soyuz", CurrentSpeed |-> 2, Mission |-> "GEMINI",
     Status |-> "IN_FLIGHT", Reason |-> Ptr("fuel leak"), LastUpdateTime |-> 2,
     LastProcessedMessageNumber |-> 2] : i \in IDs }

\* message numbers around zero
LowNumbers == {-1, 0, 1}

\* the messages with numbers around zero, delivered one call at a time
LowNumberMessages ==
  { Telemetry(c, n, 1, b) : c \in IDs, n \in LowNumbers,
      b \in {Launched, SpeedIncreased, SpeedDecreased, MissionChanged, Exploded,
             SpeedIncreasedNoBy} }

\* the messages delivered by concurrent callers
ConcurrentMessages ==
  { Telemetry(c, n, 1, b) : c \in IDs, n \in SeqNums,
      b \in {Launched, SpeedIncreased, MissionChanged} }

\* the messages a caller delivers when every caller has a rocket of its own
OwnMessages(p) == { msg \in ConcurrentMessages : msg.Metadata.Channel = p }

\* the calls of mixed callers of the store and the service: one value to
\* save, a message that is applied or dropped and one that panics;
\* GetRocketByID is called by ProcessMessage
MixedStates == { state \in SaveStates : state.ID = 1 /\ state.Status = StatusLaunched }
MixedMessages == { Telemetry(1, 1, 1, SpeedIncreased), Telemetry(1, 1, 1, SpeedIncreasedNoBy) }

\* the messages of every kind for one rocket, delivered by concurrent callers
KindMessages ==
  { Telemetry(1, n, 1, b) : n \in SeqNums,
      b \in {Launched, SpeedIncreased, SpeedDecreased, MissionChanged, Exploded} }

\* the message types of the request body, as the adapter's switch names them
GenRocketExploded == "gen.RocketExploded"
GenRocketLaunched == "gen.RocketLaunched"
GenRocketSpeedIncreased == "gen.RocketSpeedIncreased"
GenRocketSpeedDecreased == "gen.RocketSpeedDecreased"
GenRocketMissionChanged == "gen.RocketMissionChanged"
\* a message type the switch has no case for
GenRocketLanded == "gen.RocketLanded"

\* the sort keys and orders of the list query
GenId == "id"
GenType == "type"
GenSpeed == "speed"
GenMission == "mission"
GenLastUpdateTime == "lastUpdateTime"
GenAsc == "asc"
GenDesc == "desc"

\* the body of an ingest request
IngestRequest(c, n, t, k, m) ==
  [Metadata |-> [Channel |-> c, MessageNumber |-> n, MessageTime |-> t,
                 MessageType |-> k],
   Message |-> m]

\* the ingest requests: each kind with its payload, a speed increase without
\* its amount, an explosion without its reason, and a kind that is not known
IngestRequests ==
  { IngestRequest(c, n, 1, b[1], b[2]) : c \in IDs, n \in SeqNums,
      b \in { <<GenRocketLaunched, Launched[2]>>,
              <<GenRocketSpeedIncreased, SpeedIncreased[2]>>,
              <<GenRocketSpeedDecreased, SpeedDecreased[2]>>,
              <<GenRocketMissionChanged, MissionChanged[2]>>,
              <<GenRocketExploded, Exploded[2]>>,
              <<GenRocketSpeedIncreased, ZeroMessage>>,
              <<GenRocketExploded, ZeroMessage>>,
              <<GenRocketLanded, SpeedIncreased[2]>> } }

\* the parameters of list queries: every sort key with the default order and
\* with desc, every order with the default key
ListParams ==
  { [SortBy |-> sb, SortOrder |-> so] :
      sb \in {Nil, Ptr(GenId), Ptr(GenType), Ptr(GenSpeed), Ptr(GenMission),
              Ptr(GenLastUpdateTime), Ptr("altitude")},
      so \in {Nil, Ptr(GenDesc)} }
  \cup
  { [SortBy |-> Nil, SortOrder |-> so] : so \in {Ptr(GenAsc), Ptr("down")} }

\* the sortBy and sortOrder strings handed to the service's ListAllRockets
SortBys == {"", "id", "Type", "speed", "mission", "lastUpdateTime", "altitude"}
SortOrders == {"", "asc", "desc", "DESC", "down"}

\* a rocket of a populated store; the two variants order differently by
\* type and speed than by mission and time
ListedState(i, k) ==
  IF k = 1
  THEN [ID |-> i, Type |-> "Falcon-9", CurrentSpeed |-> 1, Mission |-> "GEMINI",
        Status |-> StatusLaunched, Reason |-> Nil, LastUpdateTime |-> 2,
        LastProcessedMessageNumber |-> 1]
  ELSE [ID |-> i, Type |-> "Soyuz", CurrentSpeed |-> 2, Mission |-> "ARTEMIS",
        Status |-> StatusLaunched, Reason |-> Nil, LastUpdateTime |-> 1,
        LastProcessedMessageNumber |-> 2]

\* the stores that hold up to MaxList rockets
ListedStores ==
  UNION { { [i \in S |-> ListedState(i, k[i])] : k \in [S -> {1, 2}] } :
          S \in SUBSET (1..MaxList) }

(* ------------------------------ state ---------------------------------- *)

VARIABLES
  rockets,    \* InMemoryRocketStore.rockets: the map, a function on its keys
  mu,         \* InMemoryRocketStore.mu: [w: set of writers, r: set of readers]
  pc,         \* where each caller stands
  call,       \* the locals of each caller's call
  calls,      \* mutating calls started so far
  saved,      \* per identifier, the completed map writes, in order
  completed,  \* the messages whose ProcessMessage call has returned
  entry       \* with one call at a time: the map as it was when the call started

vars == <<rockets, mu, pc, call, calls, saved, completed, entry>>

IdleCall ==
  [op |-> "", msg |-> ZeroTelemetry, id |-> 0, state |-> ZeroState,
   rocket |-> ZeroState, ok |-> FALSE, err |-> "", states |-> <<>>, iter |-> {},
   redelivery |-> FALSE, sortBy |-> "", sortOrder |-> "", http |-> "",
   request |-> ZeroTelemetry, resp |-> "", snapshot |-> <<>>]

Init ==
  /\ rockets = <<>>
  /\ mu = [w |-> {}, r |-> {}]
  /\ pc = [p \in Procs |-> "idle"]
  /\ call = [p \in Procs |-> IdleCall]
  /\ calls = 0
  /\ saved = [i \in IDs |-> <<>>]
  /\ completed = {}
  /\ entry = <<>>

(* ------------------------------ sync.RWMutex --------------------------- *)

\* a Lock that does not wait for the readers to leave
CanLockDespiteReaders == mu.w = {}

\* Lock is granted when nobody holds the mutex
CanLock == mu.w = {} /\ mu.r = {}

\* RLock is granted when no writer holds the mutex
CanRLock == mu.w = {}

(* ------------------------------ store ---------------------------------- *)

\* some key is in the map
HasAnyKey(m, id) == DOMAIN m # {}

\* rockets[id] with the comma-ok form
Lookup(m, id) == IF id \in DOMAIN m THEN m[id] ELSE ZeroState
Has(m, id) == id \in DOMAIN m

\* s.rockets[state.ID] = state is a copy of a struct of several words: the
\* slot first holds the leading fields of the new value and the trailing
\* fields of what was there before (the zero value for a fresh key)
FirstWords(old, new) ==
  [old EXCEPT !.ID = new.ID, !.Type = new.Type,
              !.CurrentSpeed = new.CurrentSpeed, !.Mission = new.Mission]

\* a store that refuses to replace a value by one with a lower message number
AllWordsUnlessNewer(old, new) ==
  IF old.LastProcessedMessageNumber > new.LastProcessedMessageNumber THEN old ELSE new

AllWords(old, new) == new

\* an assignment that leaves only the assigned key in the map
MapAssignAlone(m, id, v) == [x \in {id} |-> v]

\* an assignment that writes the value under every key
MapAssignAll(m, id, v) == [x \in DOMAIN m \cup {id} |-> v]

\* an assignment that only inserts
MapAssignIfAbsent(m, id, v) ==
  [x \in DOMAIN m \cup {id} |-> IF x = id /\ id \notin DOMAIN m THEN v ELSE m[x]]

MapAssign(m, id, v) == [x \in DOMAIN m \cup {id} |-> IF x = id THEN v ELSE m[x]]

(* ------------------------------ ProcessMessage ------------------------- *)

\* the check with == in place of <=: only duplicates are dropped
IsDuplicateOnly(exists, msg, currentState) ==
  exists /\ msg.Metadata.MessageNumber = currentState.LastProcessedMessageNumber

\* the check with < in place of <=: duplicates pass
IsOldOnly(exists, msg, currentState) ==
  exists /\ msg.Metadata.MessageNumber < currentState.LastProcessedMessageNumber

\* the check without exists: a number is compared with the zero value's 0
IsOldWhetherStored(exists, msg, currentState) ==
  msg.Metadata.MessageNumber <= currentState.LastProcessedMessageNumber

\* "Check if the message is old or a duplicate"
IsOldOrDuplicate(exists, msg, currentState) ==
  exists /\ msg.Metadata.MessageNumber <= currentState.LastProcessedMessageNumber

\* the state the transition starts from: the stored one, or a fresh one
StartState(exists, msg, currentState) ==
  IF exists THEN currentState
  ELSE [ZeroState EXCEPT !.ID = msg.Metadata.Channel, !.Status = "UNKNOWN"]

\* the switch dereferences the payload fields of the message's kind; a nil
\* one is a nil pointer dereference (a panic, before anything is saved)
Dereferences(msg) ==
  CASE msg.Metadata.MessageType = MessageTypeLaunched ->
         {msg.Message.Type, msg.Message.LaunchSpeed, msg.Message.Mission}
    [] msg.Metadata.MessageType = MessageTypeSpeedIncreased -> {msg.Message.By}
    [] msg.Metadata.MessageType = MessageTypeSpeedDecreased -> {msg.Message.By}
    [] msg.Metadata.MessageType = MessageTypeMissionChanged -> {msg.Message.NewMission}
    [] OTHER -> {}

Panics(msg) == Nil \in Dereferences(msg)

\* case MessageTypeLaunched without the status
LaunchedKeepsStatus(newState, msg) ==
  [newState EXCEPT !.Type = Deref(msg.Message.Type),
                   !.CurrentSpeed = Deref(msg.Message.LaunchSpeed),
                   !.Mission = Deref(msg.Message.Mission)]

\* case MessageTypeLaunched
ApplyLaunched(newState, msg) ==
  [newState EXCEPT !.Type = Deref(msg.Message.Type),
                   !.CurrentSpeed = Deref(msg.Message.LaunchSpeed),
                   !.Mission = Deref(msg.Message.Mission),
                   !.Status = StatusLaunched]

\* case MessageTypeSpeedIncreased
ApplySpeedIncreased(newState, msg) ==
  [newState EXCEPT !.CurrentSpeed = Int64(@ + Deref(msg.Message.By))]

\* case MessageTypeSpeedDecreased with the speed kept from going below zero
SpeedDecreasedClamped(newState, msg) ==
  [newState EXCEPT !.CurrentSpeed =
     IF @ - Deref(msg.Message.By) < 0 THEN 0 ELSE Int64(@ - Deref(msg.Message.By))]

\* case MessageTypeSpeedDecreased
ApplySpeedDecreased(newState, msg) ==
  [newState EXCEPT !.CurrentSpeed = Int64(@ - Deref(msg.Message.By))]

\* case MessageTypeExploded without the speed
ExplodedKeepsSpeed(newState, msg) ==
  [newState EXCEPT !.Status = StatusExploded, !.Reason = msg.Message.Reason]

\* case MessageTypeExploded
ApplyExploded(newState, msg) ==
  [newState EXCEPT !.CurrentSpeed = 0,
                   !.Status = StatusExploded,
                   !.Reason = msg.Message.Reason]

\* case MessageTypeMissionChanged with the speed reset
MissionChangedResetsSpeed(newState, msg) ==
  [newState EXCEPT !.Mission = Deref(msg.Message.NewMission), !.CurrentSpeed = 0]

\* case MessageTypeMissionChanged
ApplyMissionChanged(newState, msg) ==
  [newState EXCEPT !.Mission = Deref(msg.Message.NewMission)]

\* switch msg.Metadata.MessageType
ApplyKind(newState, msg) ==
  CASE msg.Metadata.MessageType = MessageTypeLaunched -> ApplyLaunched(newState, msg)
    [] msg.Metadata.MessageType = MessageTypeSpeedIncreased ->
         ApplySpeedIncreased(newState, msg)
    [] msg.Metadata.MessageType = MessageTypeSpeedDecreased ->
         ApplySpeedDecreased(newState, msg)
    [] msg.Metadata.MessageType = MessageTypeExploded -> ApplyExploded(newState, msg)
    [] msg.Metadata.MessageType = MessageTypeMissionChanged ->
         ApplyMissionChanged(newState, msg)
    [] OTHER -> newState

\* newState with the later of the stored time and the message's time
NewStateLatestTime(exists, msg, currentState) ==
  ApplyKind([StartState(exists, msg, currentState) EXCEPT
               !.LastProcessedMessageNumber = msg.Metadata.MessageNumber,
               !.LastUpdateTime = IF msg.Metadata.MessageTime > @
                                  THEN msg.Metadata.MessageTime ELSE @],
            msg)

\* newState as handed to SaveRocket
NewState(exists, msg, currentState) ==
  ApplyKind([StartState(exists, msg, currentState) EXCEPT
               !.LastProcessedMessageNumber = msg.Metadata.MessageNumber,
               !.LastUpdateTime = msg.Metadata.MessageTime],
            msg)

(* ------------------------------ sorted listing ------------------------- *)

\* strings.ToLower on the field names and orders that are passed
ToLower(str) ==
  CASE str = "ID" -> "id"
    [] str = "Type" -> "type"
    [] str = "Speed" -> "speed"
    [] str = "Mission" -> "mission"
    [] str = "lastUpdateTime" -> "lastupdatetime"
    [] str = "ASC" -> "asc"
    [] str = "DESC" -> "desc"
    [] str = "Desc" -> "desc"
    [] OTHER -> str

\* the fields the comparator has a case for
SortFields == {"id", "type", "speed", "mission", "lastupdatetime"}

\* Go's < on the strings that occur as Type and Mission: byte-wise order
StringOrder == <<"", "ARTEMIS", "Falcon-9", "GEMINI", "Soyuz">>
StringRank(str) == CHOOSE k \in 1..Len(StringOrder) : StringOrder[k] = str
StringLess(a, b) == StringRank(a) < StringRank(b)

\* uuid.UUID.String(): fixed-width hexadecimal, so that < on the strings is
\* the order of the identifiers' digits
IDString(id) == <<id \div 10, id % 10>>
DigitsLess(a, b) == a[1] < b[1] \/ (a[1] = b[1] /\ a[2] < b[2])

\* the comparator with the reversal dropped
LessIgnoresOrder(rs, i, j, sortBy, sortOrder) ==
  LET field == ToLower(sortBy)
      less == CASE field = "id" -> DigitsLess(IDString(rs[i].ID), IDString(rs[j].ID))
                [] field = "type" -> StringLess(rs[i].Type, rs[j].Type)
                [] field = "speed" -> rs[i].CurrentSpeed < rs[j].CurrentSpeed
                [] field = "mission" -> StringLess(rs[i].Mission, rs[j].Mission)
                [] field = "lastupdatetime" -> rs[i].LastUpdateTime < rs[j].LastUpdateTime
                [] OTHER -> FALSE
  IN  IF field \notin SortFields THEN i < j ELSE less

\* the comparator with the positions of the default case exchanged
LessUnknownReversed(rs, i, j, sortBy, sortOrder) ==
  LET field == ToLower(sortBy)
      less == CASE field = "id" -> DigitsLess(IDString(rs[i].ID), IDString(rs[j].ID))
                [] field = "type" -> StringLess(rs[i].Type, rs[j].Type)
                [] field = "speed" -> rs[i].CurrentSpeed < rs[j].CurrentSpeed
                [] field = "mission" -> StringLess(rs[i].Mission, rs[j].Mission)
                [] field = "lastupdatetime" -> rs[i].LastUpdateTime < rs[j].LastUpdateTime
                [] OTHER -> FALSE
  IN  IF field \notin SortFields THEN j < i
      ELSE IF ToLower(sortOrder) = "desc" THEN ~less ELSE less

\* the comparator handed to sort.Slice: positions i and j of the slice rs
Less(rs, i, j, sortBy, sortOrder) ==
  LET field == ToLower(sortBy)
      less == CASE field = "id" -> DigitsLess(IDString(rs[i].ID), IDString(rs[j].ID))
                [] field = "type" -> StringLess(rs[i].Type, rs[j].Type)
                [] field = "speed" -> rs[i].CurrentSpeed < rs[j].CurrentSpeed
                [] field = "mission" -> StringLess(rs[i].Mission, rs[j].Mission)
                [] field = "lastupdatetime" -> rs[i].LastUpdateTime < rs[j].LastUpdateTime
                [] OTHER -> FALSE
  IN  IF field \notin SortFields THEN i < j
      ELSE IF ToLower(sortOrder) = "desc" THEN ~less ELSE less

Swap(rs, i, j) == [rs EXCEPT ![i] = rs[j], ![j] = rs[i]]

\* sort.Slice on a slice of fewer than 12 elements is an insertion sort:
\*   for i := a + 1; i < b; i++ {
\*     for j := i; j > a && less(j, j-1); j-- { swap(j, j-1) } }
RECURSIVE InsertLeft(_, _, _, _)
InsertLeft(rs, j, sortBy, sortOrder) ==
  IF j > 1 /\ Less(rs, j, j - 1, sortBy, sortOrder)
  THEN InsertLeft(Swap(rs, j, j - 1), j - 1, sortBy, sortOrder)
  ELSE rs

RECURSIVE InsertionSort(_, _, _, _)
InsertionSort(rs, i, sortBy, sortOrder) ==
  IF i > Len(rs) THEN rs
  ELSE InsertionSort(InsertLeft(rs, i, sortBy, sortOrder), i + 1, sortBy, sortOrder)

SortSlice(rs, sortBy, sortOrder) == InsertionSort(rs, 2, sortBy, sortOrder)

\* the service's ListAllRockets after it has the store's listing
SortedRockets(rs, sortBy, sortOrder) ==
  IF sortBy = "" THEN rs ELSE SortSlice(rs, sortBy, sortOrder)

(* ------------------------------ calls ---------------------------------- *)

\* a goroutine is free for a call before its first and after each return
Free(p) == pc[p] = "idle"

\* a caller enters ProcessMessage with msg
ProcessMessage(p, msg) ==
  /\ Free(p)
  /\ calls < MaxCalls
  /\ calls' = calls + 1
  /\ call' = [call EXCEPT ![p] = [IdleCall EXCEPT !.op = "ProcessMessage",
                                     !.msg = msg, !.id = msg.Metadata.Channel,
                                     !.redelivery = msg \in completed]]
  /\ pc' = [pc EXCEPT ![p] = "GetRLock"]
  /\ UNCHANGED <<rockets, mu, saved, completed>>

\* a caller enters GetRocketState, which is GetRocketByID on the store
GetRocketState(p, id) ==
  /\ Free(p)
  /\ call' = [call EXCEPT ![p] = [IdleCall EXCEPT !.op = "GetRocketState", !.id = id]]
  /\ pc' = [pc EXCEPT ![p] = "GetRLock"]
  /\ UNCHANGED <<rockets, mu, calls, saved, completed>>

\* a caller enters SaveRocket with state
SaveRocket(p, state) ==
  /\ Free(p)
  /\ calls < MaxCalls
  /\ calls' = calls + 1
  /\ call' = [call EXCEPT ![p] = [IdleCall EXCEPT !.op = "SaveRocket",
                                     !.id = state.ID, !.state = state]]
  /\ pc' = [pc EXCEPT ![p] = "SaveLock"]
  /\ UNCHANGED <<rockets, mu, saved, completed>>

\* a caller enters GetRocketByID with id
GetRocketByID(p, id) ==
  /\ Free(p)
  /\ call' = [call EXCEPT ![p] = [IdleCall EXCEPT !.op = "GetRocketByID", !.id = id]]
  /\ pc' = [pc EXCEPT ![p] = "GetRLock"]
  /\ UNCHANGED <<rockets, mu, calls, saved, completed>>

\* a caller enters the store's ListAllRockets
ListAllRockets(p) ==
  /\ Free(p)
  /\ call' = [call EXCEPT ![p] = [IdleCall EXCEPT !.op = "ListAllRockets"]]
  /\ pc' = [pc EXCEPT ![p] = "ListRLock"]
  /\ UNCHANGED <<rockets, mu, calls, saved, completed>>

\* make([]State, len(s.rockets)): as many zero values as the map has keys
MakeStatesFilled(m) == [k \in 1..Cardinality(DOMAIN m) |-> ZeroState]

\* make([]State, 0, len(s.rockets)): no elements, room for every key
MakeStates(m) == <<>>

\* ListAllRockets: s.mu.RLock(), states := make([]State, 0, len(s.rockets))
ListRLock(p) ==
  /\ pc[p] = "ListRLock"
  /\ CanRLock
  /\ mu' = [mu EXCEPT !.r = @ \cup {p}]
  /\ call' = [call EXCEPT ![p].states = MakeStates(rockets)]
  /\ pc' = [pc EXCEPT ![p] = "ListRange"]
  /\ UNCHANGED <<rockets, calls, saved, completed, entry>>

\* ListAllRockets: one turn of the range over the map, in any key order
ListRange(p) ==
  /\ pc[p] = "ListRange"
  /\ \E k \in DOMAIN rockets \ call[p].iter :
       call' = [call EXCEPT ![p].states = Append(@, rockets[k]),
                            ![p].iter = @ \cup {k}]
  /\ UNCHANGED <<rockets, mu, pc, calls, saved, completed, entry>>

\* ListAllRockets: the range is over, the deferred s.mu.RUnlock(), the return
ListRUnlock(p) ==
  /\ pc[p] = "ListRange"
  /\ DOMAIN rockets \ call[p].iter = {}
  /\ mu' = [mu EXCEPT !.r = @ \ {p}]
  /\ pc' = [pc EXCEPT ![p] = IF call[p].op = "Service.ListAllRockets"
                              THEN "Sort" ELSE "done"]
  /\ UNCHANGED <<rockets, call, calls, saved, completed, entry>>

\* GetRocketByID: s.mu.RLock()
GetRLock(p) ==
  /\ pc[p] = "GetRLock"
  /\ CanRLock
  /\ mu' = [mu EXCEPT !.r = @ \cup {p}]
  /\ pc' = [pc EXCEPT ![p] = "GetRead"]
  /\ UNCHANGED <<rockets, call, calls, saved, completed, entry>>

\* GetRocketByID: rocket, ok := s.rockets[id]
GetRead(p) ==
  /\ pc[p] = "GetRead"
  /\ call' = [call EXCEPT ![p].rocket = Lookup(rockets, call[p].id),
                          ![p].ok = Has(rockets, call[p].id)]
  /\ pc' = [pc EXCEPT ![p] = "GetRUnlock"]
  /\ UNCHANGED <<rockets, mu, calls, saved, completed, entry>>

\* GetRocketByID: the deferred s.mu.RUnlock(), and the return to the caller
GetRUnlock(p) ==
  /\ pc[p] = "GetRUnlock"
  /\ mu' = [mu EXCEPT !.r = @ \ {p}]
  /\ pc' = [pc EXCEPT ![p] = IF call[p].op = "ProcessMessage" THEN "Decide" ELSE "done"]
  /\ UNCHANGED <<rockets, call, calls, saved, completed, entry>>

\* an error returned for a message that is dropped
DroppedResultError == "old or duplicate message"

\* what ProcessMessage returns for a message that is dropped: return nil
DroppedResult == "nil"

\* ProcessMessage between its read and its write: the sequencing check and
\* the transition
Decide(p) ==
  /\ pc[p] = "Decide"
  /\ IF IsOldOrDuplicate(call[p].ok, call[p].msg, call[p].rocket)
     THEN /\ pc' = [pc EXCEPT ![p] = "done"]
          /\ call' = [call EXCEPT ![p].err = DroppedResult]
          /\ completed' = completed \cup {call[p].msg}
     ELSE IF Panics(call[p].msg)
     THEN /\ pc' = [pc EXCEPT ![p] = "done"]
          /\ call' = [call EXCEPT ![p].err = "panic"]
          /\ completed' = completed \cup {call[p].msg}
     ELSE /\ pc' = [pc EXCEPT ![p] = "SaveLock"]
          /\ call' = [call EXCEPT ![p].state =
                        NewState(call[p].ok, call[p].msg, call[p].rocket)]
          /\ UNCHANGED completed
  /\ UNCHANGED <<rockets, mu, calls, saved, entry>>

\* SaveRocket: s.mu.Lock()
SaveLock(p) ==
  /\ pc[p] = "SaveLock"
  /\ CanLock
  /\ mu' = [mu EXCEPT !.w = @ \cup {p}]
  /\ pc' = [pc EXCEPT ![p] = "SaveStore"]
  /\ UNCHANGED <<rockets, call, calls, saved, completed, entry>>

\* SaveRocket: s.rockets[state.ID] = state, the leading words
SaveStore(p) ==
  /\ pc[p] = "SaveStore"
  /\ rockets' = MapAssign(rockets, call[p].state.ID,
                          FirstWords(Lookup(rockets, call[p].state.ID), call[p].state))
  /\ pc' = [pc EXCEPT ![p] = "SaveStored"]
  /\ UNCHANGED <<mu, call, calls, saved, completed, entry>>

\* SaveRocket: s.rockets[state.ID] = state, the trailing words
SaveStored(p) ==
  /\ pc[p] = "SaveStored"
  /\ rockets' = MapAssign(rockets, call[p].state.ID,
                          AllWords(Lookup(rockets, call[p].state.ID), call[p].state))
  /\ saved' = [saved EXCEPT ![call[p].state.ID] =
                 Append(@, [msg |-> call[p].msg, state |-> call[p].state])]
  /\ pc' = [pc EXCEPT ![p] = "SaveUnlock"]
  /\ UNCHANGED <<mu, call, calls, completed, entry>>

\* SaveRocket returning without s.mu.Unlock()
SaveUnlockKeepsMutex(p) ==
  /\ pc[p] = "SaveUnlock"
  /\ pc' = [pc EXCEPT ![p] = "done"]
  /\ call' = [call EXCEPT ![p].err = IF call[p].op = "ProcessMessage" THEN "nil" ELSE ""]
  /\ completed' = IF call[p].op = "ProcessMessage"
                  THEN completed \cup {call[p].msg} ELSE completed
  /\ UNCHANGED <<rockets, mu, calls, saved, entry>>

\* SaveRocket: the deferred s.mu.Unlock(), and the return to the caller
SaveUnlock(p) ==
  /\ pc[p] = "SaveUnlock"
  /\ mu' = [mu EXCEPT !.w = @ \ {p}]
  /\ pc' = [pc EXCEPT ![p] = "done"]
  /\ call' = [call EXCEPT ![p].err = IF call[p].op = "ProcessMessage" THEN "nil" ELSE ""]
  /\ completed' = IF call[p].op = "ProcessMessage"
                  THEN completed \cup {call[p].msg} ELSE completed
  /\ UNCHANGED <<rockets, calls, saved, entry>>

\* a handler of the adapter has its response once resp is set; a direct call
\* of the service or the store has none to give
Responded(p) == call[p].http = "" \/ call[p].resp # ""

\* the call has returned; the goroutine is free for the next one
Return(p) ==
  /\ pc[p] = "done"
  /\ Responded(p)
  /\ pc' = [pc EXCEPT ![p] = "idle"]
  /\ call' = [call EXCEPT ![p] = IdleCall]
  /\ UNCHANGED <<rockets, mu, calls, saved, completed>>
  /\ entry' = <<>>

\* the service's ListAllRockets: a caller enters with sortBy and sortOrder
ServiceListAllRockets(p, sortBy, sortOrder) ==
  /\ Free(p)
  /\ call' = [call EXCEPT ![p] = [IdleCall EXCEPT !.op = "Service.ListAllRockets",
                                     !.sortBy = sortBy, !.sortOrder = sortOrder]]
  /\ pc' = [pc EXCEPT ![p] = "ListRLock"]
  /\ UNCHANGED <<rockets, mu, calls, saved, completed>>

\* the service's ListAllRockets after the store's listing: the early return
\* for no sort key, sort.Slice, the return
SortRockets(p) ==
  /\ pc[p] = "Sort"
  /\ call' = [call EXCEPT ![p].states =
                              SortedRockets(@, call[p].sortBy, call[p].sortOrder),
                          ![p].snapshot = call[p].states]
  /\ pc' = [pc EXCEPT ![p] = "done"]
  /\ UNCHANGED <<rockets, mu, calls, saved, completed, entry>>

(* ------------------------------ HTTP adapter --------------------------- *)

\* every message type passes the switch
RecognizedAny(k) == TRUE

\* the cases of IngestMessage's switch over the message type
Recognized(k) ==
  k \in {GenRocketExploded, GenRocketLaunched, GenRocketSpeedIncreased,
         GenRocketSpeedDecreased, GenRocketMissionChanged}

\* msgType after the switch; the zero value when no case assigned it
MessageTypeOf(k) ==
  CASE k = GenRocketExploded -> MessageTypeExploded
    [] k = GenRocketLaunched -> MessageTypeLaunched
    [] k = GenRocketSpeedIncreased -> MessageTypeSpeedIncreased
    [] k = GenRocketSpeedDecreased -> MessageTypeSpeedDecreased
    [] k = GenRocketMissionChanged -> MessageTypeMissionChanged
    [] OTHER -> ""

\* the TelemetryMessage built from the request body: the payload's pointers
\* are passed on as they are
ToTelemetry(request) ==
  [Metadata |-> [Channel |-> request.Metadata.Channel,
                 MessageNumber |-> request.Metadata.MessageNumber,
                 MessageTime |-> request.Metadata.MessageTime,
                 MessageType |-> MessageTypeOf(request.Metadata.MessageType)],
   Message |-> [By |-> request.Message.By,
                LaunchSpeed |-> request.Message.LaunchSpeed,
                Mission |-> request.Message.Mission,
                NewMission |-> request.Message.NewMission,
                Reason |-> request.Message.Reason,
                Type |-> request.Message.Type]]

\* the response of IngestMessage after ProcessMessage: 202, or 500 for an
\* error; a panic is caught by the Recover middleware, which answers 500
IngestResponse(err) ==
  CASE err = "nil" -> "202"
    [] err = "panic" -> "500"
    [] OTHER -> "500"

\* the response of the adapter's GetRocketState
GetRocketStateResponse(ok) == IF ok THEN "200" ELSE "404"

\* ListRockets: the switch over the sort key; "" stands for the 400 return
SortByOf(sb) ==
  IF sb # Nil
  THEN CASE Deref(sb) = GenId -> "id"
         [] Deref(sb) = GenMission -> "mission"
         [] Deref(sb) = GenSpeed -> "speed"
         [] Deref(sb) = GenType -> "type"
         [] OTHER -> ""
  ELSE "id"

\* ListRockets: the switch over the sort order; "" stands for the 400 return
SortOrderOf(so) ==
  IF so # Nil
  THEN CASE Deref(so) = GenAsc -> "ASC"
         [] Deref(so) = GenDesc -> "DESC"
         [] OTHER -> ""
  ELSE "asc"

\* a request enters the adapter's IngestMessage
IngestMessage(p, request) ==
  /\ Free(p)
  /\ calls < MaxCalls
  /\ calls' = calls + 1
  /\ IF Recognized(request.Metadata.MessageType)
     THEN /\ call' = [call EXCEPT ![p] =
                        [IdleCall EXCEPT !.http = "IngestMessage", !.request = request,
                                         !.op = "ProcessMessage",
                                         !.msg = ToTelemetry(request),
                                         !.id = request.Metadata.Channel,
                                         !.redelivery = ToTelemetry(request) \in completed]]
          /\ pc' = [pc EXCEPT ![p] = "GetRLock"]
     ELSE /\ call' = [call EXCEPT ![p] =
                        [IdleCall EXCEPT !.http = "IngestMessage", !.request = request,
                                         !.resp = "400"]]
          /\ pc' = [pc EXCEPT ![p] = "done"]
  /\ UNCHANGED <<rockets, mu, saved, completed>>

\* a request enters the adapter's GetRocketState
ServerGetRocketState(p, id) ==
  /\ Free(p)
  /\ call' = [call EXCEPT ![p] = [IdleCall EXCEPT !.http = "GetRocketState",
                                     !.op = "GetRocketState", !.id = id]]
  /\ pc' = [pc EXCEPT ![p] = "GetRLock"]
  /\ UNCHANGED <<rockets, mu, calls, saved, completed>>

\* a request enters the adapter's ListRockets
ListRockets(p, params) ==
  /\ Free(p)
  /\ IF SortByOf(params.SortBy) # "" /\ SortOrderOf(params.SortOrder) # ""
     THEN /\ call' = [call EXCEPT ![p] =
                        [IdleCall EXCEPT !.http = "ListRockets", !.request = params,
                                         !.op = "Service.ListAllRockets",
                                         !.sortBy = SortByOf(params.SortBy),
                                         !.sortOrder = SortOrderOf(params.SortOrder)]]
          /\ pc' = [pc EXCEPT ![p] = "ListRLock"]
     ELSE /\ call' = [call EXCEPT ![p] =
                        [IdleCall EXCEPT !.http = "ListRockets", !.request = params,
                                         !.resp = "400"]]
          /\ pc' = [pc EXCEPT ![p] = "done"]
  /\ UNCHANGED <<rockets, mu, calls, saved, completed>>

\* the service has returned to the handler, which gives its response
Respond(p) ==
  /\ pc[p] = "done"
  /\ ~Responded(p)
  /\ call' = [call EXCEPT ![p].resp =
                CASE call[p].http = "IngestMessage" -> IngestResponse(call[p].err)
                  [] call[p].http = "GetRocketState" -> GetRocketStateResponse(call[p].ok)
                  [] call[p].http = "ListRockets" -> "200"]
  /\ UNCHANGED <<rockets, mu, pc, calls, saved, completed, entry>>

(* ------------------------------ specifications ------------------------- *)

\* the steps inside the store's calls and inside ProcessMessage
GetSteps(p) == GetRLock(p) \/ GetRead(p) \/ GetRUnlock(p)
SaveSteps(p) == SaveLock(p) \/ SaveStore(p) \/ SaveStored(p) \/ SaveUnlock(p)
ListSteps(p) == ListRLock(p) \/ ListRange(p) \/ ListRUnlock(p)

\* the service under concurrent callers of ProcessMessage
Next ==
  \E p \in Procs :
    \/ \E msg \in ConcurrentMessages : ProcessMessage(p, msg) /\ UNCHANGED entry
    \/ GetSteps(p)
    \/ Decide(p)
    \/ SaveSteps(p)
    \/ Return(p)

Spec == Init /\ [][Next]_vars

\* the service with one call completing before the next starts
AllIdle == \A q \in Procs : Free(q)

SeqNext ==
  \E p \in Procs :
    \/ AllIdle /\ \E msg \in TelemetryMessages : ProcessMessage(p, msg) /\ entry' = rockets
    \/ AllIdle /\ \E id \in IDs : GetRocketState(p, id) /\ entry' = rockets
    \/ GetSteps(p)
    \/ Decide(p)
    \/ SaveSteps(p)
    \/ Return(p)

SeqSpec == Init /\ [][SeqNext]_vars

\* the store under concurrent direct callers
StoreNext ==
  \E p \in Procs :
    \/ \E state \in SaveStates : SaveRocket(p, state) /\ UNCHANGED entry
    \/ \E id \in IDs : GetRocketByID(p, id) /\ UNCHANGED entry
    \/ ListAllRockets(p) /\ UNCHANGED entry
    \/ GetSteps(p)
    \/ ListSteps(p)
    \/ SaveSteps(p)
    \/ Return(p)

StoreSpec == Init /\ [][StoreNext]_vars

\* the service under concurrent callers of ProcessMessage with messages of
\* every kind for one rocket
KindNext ==
  \E p \in Procs :
    \/ \E msg \in KindMessages : ProcessMessage(p, msg) /\ UNCHANGED entry
    \/ GetSteps(p)
    \/ Decide(p)
    \/ SaveSteps(p)
    \/ Return(p)

KindSpec == Init /\ [][KindNext]_vars

\* the service under concurrent callers of ProcessMessage, the calls of
\* different callers being for different rockets
OwnNext ==
  \E p \in Procs :
    \/ \E msg \in OwnMessages(p) : ProcessMessage(p, msg) /\ UNCHANGED entry
    \/ GetSteps(p)
    \/ Decide(p)
    \/ SaveSteps(p)
    \/ Return(p)

OwnSpec == Init /\ [][OwnNext]_vars

\* sync.RWMutex: a Lock that waits holds back the RLocks that come after it,
\* so that the readers drain and the writer gets the mutex
NoLockWaits == \A q \in Procs : pc[q] # "SaveLock"
GetRLockInTurn(p) == NoLockWaits /\ GetRLock(p)
ListRLockInTurn(p) == NoLockWaits /\ ListRLock(p)

\* the store and the service under concurrent callers of every operation
MixedNext ==
  \E p \in Procs :
    \/ \E state \in MixedStates : SaveRocket(p, state) /\ UNCHANGED entry
    \/ ListAllRockets(p) /\ UNCHANGED entry
    \/ \E msg \in MixedMessages : ProcessMessage(p, msg) /\ UNCHANGED entry
    \/ GetRLockInTurn(p) \/ GetRead(p) \/ GetRUnlock(p)
    \/ ListRLockInTurn(p) \/ ListRange(p) \/ ListRUnlock(p)
    \/ Decide(p)
    \/ SaveSteps(p)
    \/ Return(p)

\* the steps inside p's call
Running(p) ==
  \/ GetRLockInTurn(p) \/ GetRead(p) \/ GetRUnlock(p)
  \/ ListRLockInTurn(p) \/ ListRange(p) \/ ListRUnlock(p)
  \/ Decide(p)
  \/ SaveSteps(p)
  \/ Return(p)

\* fair scheduling: a goroutine whose next step stays possible takes it
Fairness == \A p \in Procs : WF_vars(Running(p))

FairSpec == Init /\ [][MixedNext]_vars /\ Fairness

\* the service with one call at a time and message numbers around zero
LowNext ==
  \E p \in Procs :
    \/ AllIdle /\ \E msg \in LowNumberMessages : ProcessMessage(p, msg) /\ entry' = rockets
    \/ GetSteps(p)
    \/ Decide(p)
    \/ SaveSteps(p)
    \/ Return(p)

LowSpec == Init /\ [][LowNext]_vars

\* the adapter with one request completing before the next starts
ApiNext ==
  \E p \in Procs :
    \/ AllIdle /\ \E request \in IngestRequests : IngestMessage(p, request) /\ entry' = rockets
    \/ AllIdle /\ \E id \in IDs : ServerGetRocketState(p, id) /\ entry' = rockets
    \/ AllIdle /\ \E params \in ListParams : ListRockets(p, params) /\ entry' = rockets
    \/ GetSteps(p)
    \/ Decide(p)
    \/ SaveSteps(p)
    \/ ListSteps(p)
    \/ SortRockets(p)
    \/ Respond(p)
    \/ Return(p)

ApiSpec == Init /\ [][ApiNext]_vars

\* the service's sorted listing over a store that holds some rockets
SortInit ==
  /\ rockets \in ListedStores
  /\ mu = [w |-> {}, r |-> {}]
  /\ pc = [p \in Procs |-> "idle"]
  /\ call = [p \in Procs |-> IdleCall]
  /\ calls = 0
  /\ saved = [i \in IDs |-> <<>>]
  /\ completed = {}
  /\ entry = <<>>

SortNext ==
  \E p \in Procs :
    \/ AllIdle /\ \E sortBy \in SortBys, sortOrder \in SortOrders :
         ServiceListAllRockets(p, sortBy, sortOrder) /\ UNCHANGED entry
    \/ ListSteps(p)
    \/ SortRockets(p)
    \/ Return(p)

SortSpec == SortInit /\ [][SortNext]_vars

(* ------------------------------ properties ----------------------------- *)

\* a ProcessMessage call of p has returned
Returned(p) == pc[p] = "done" /\ call[p].op = "ProcessMessage"

\* ... and it went through SaveRocket
Applied(p) == Returned(p) /\ call[p].err = "nil" /\ call[p].state.ID # 0

Channel(p) == call[p].msg.Metadata.Channel
Kind(p) == call[p].msg.Metadata.MessageType

\* the message of p's call was stale or a duplicate when the call started
StaleAtEntry(p) ==
  /\ Has(entry, Channel(p))
  /\ call[p].msg.Metadata.MessageNumber <= entry[Channel(p)].LastProcessedMessageNumber

\* C1 (SeqSpec): a ProcessMessage call whose message carries an identifier
\* that has a stored state and a message number <= that state's
\* LastProcessedMessageNumber returns nil, and the whole map (that
\* identifier's entry and every other) is what it was before the call.
C1_StaleDrop ==
  \A p \in Procs :
    (Returned(p) /\ StaleAtEntry(p)) => (call[p].err = "nil" /\ rockets = entry)

\* an older message was dropped
C1_Witness ==
  \E p \in Procs :
    /\ Returned(p) /\ StaleAtEntry(p)
    /\ call[p].msg.Metadata.MessageNumber < entry[Channel(p)].LastProcessedMessageNumber
    /\ call[p].err = "nil" /\ rockets = entry

Max(S) == CHOOSE x \in S : \A y \in S : y <= x

\* the message numbers of the messages that went through SaveRocket for id
AppliedNumbers(id) ==
  { saved[id][i].msg.Metadata.MessageNumber : i \in 1..Len(saved[id]) }

\* in one step no identifier leaves the map and no LastProcessedMessageNumber
\* decreases
SequenceStep ==
  \A id \in DOMAIN rockets :
    /\ id \in DOMAIN rockets'
    /\ rockets'[id].LastProcessedMessageNumber >= rockets[id].LastProcessedMessageNumber

\* C2 (SeqSpec): with one call completing before the next starts, the stored
\* LastProcessedMessageNumber of an identifier never decreases, and it is the
\* maximum message number among the messages for it that were not dropped.
C2_MonotonicSequence ==
  /\ [][SequenceStep]_vars
  /\ [](\A id \in IDs :
          saved[id] # <<>> =>
            /\ Has(rockets, id)
            /\ rockets[id].LastProcessedMessageNumber = Max(AppliedNumbers(id)))

\* two messages with different numbers were applied to one identifier
C2_Witness ==
  \E id \in IDs :
    /\ Cardinality(AppliedNumbers(id)) = 2
    /\ mu.w = {}
    /\ rockets[id].LastProcessedMessageNumber = Max(AppliedNumbers(id))

\* C3 (Spec): under concurrent ProcessMessage calls the stored
\* LastProcessedMessageNumber of an identifier never decreases from one
\* state of the map to the next.
C3_SequenceNeverDecreases == [][SequenceStep]_vars

\* p's entry in the log of map writes is directly followed by q's, the last
SavedLast(p, q) ==
  LET h == saved[Channel(q)] IN
    /\ Len(h) >= 2
    /\ h[Len(h) - 1] = [msg |-> call[p].msg, state |-> call[p].state]
    /\ h[Len(h)] = [msg |-> call[q].msg, state |-> call[q].state]

\* p and q processed messages for one identifier, read the same state (or
\* both found none), both passed the check and both saved, q after p
Raced(p, q) ==
  /\ p # q
  /\ Applied(p) /\ Applied(q)
  /\ Channel(p) = Channel(q)
  /\ call[p].ok = call[q].ok /\ call[p].rocket = call[q].rocket
  /\ SavedLast(p, q)
  /\ mu.w = {}

\* C4 (Spec): lost update.  Whenever two concurrent ProcessMessage calls
\* for one identifier have read the same state, both passed the sequencing
\* check and both saved, the stored state is the one the later SaveRocket
\* computed from that common read alone: nothing of what the earlier call
\* computed is in it.  The witness shows the interleaving is reachable.
C4_LostUpdate ==
  \A p, q \in Procs :
    Raced(p, q) =>
      rockets[Channel(q)] = NewState(call[p].ok, call[q].msg, call[p].rocket)

\* both found no rocket; the speed increase saved first is gone after the
\* mission change saved second
C4_Witness ==
  \E p, q \in Procs :
    /\ Raced(p, q)
    /\ ~call[p].ok
    /\ Kind(p) = MessageTypeSpeedIncreased /\ call[p].state.CurrentSpeed = 2
    /\ Kind(q) = MessageTypeMissionChanged
    /\ rockets[Channel(q)].CurrentSpeed = 0
    /\ rockets[Channel(q)].Mission = "GEMINI"

\* C5 (SeqSpec): dedup idempotence.  A ProcessMessage call for a message
\* that an earlier, completed call already processed (whatever was
\* processed in between, one call at a time) leaves the map as it found it,
\* for every kind of message and also when the earlier call created the
\* rocket.
C5_DedupIdempotence ==
  \A p \in Procs :
    (Returned(p) /\ call[p].redelivery) => rockets = entry

\* the first delivery created the rocket, the second changed nothing
C5_Witness ==
  \E p \in Procs :
    /\ Returned(p) /\ call[p].redelivery
    /\ rockets = entry
    /\ Has(rockets, Channel(p))
    /\ saved[Channel(p)] = <<[msg |-> call[p].msg, state |-> rockets[Channel(p)]]>>

\* a writer holds the mutex alone
Exclusion == mu.w # {} => (Cardinality(mu.w) = 1 /\ mu.r = {})

\* the values handed whole to a SaveRocket for id that has completed its map
\* write or holds the mutex
HandedToSave(id) ==
  { saved[id][i].state : i \in 1..Len(saved[id]) }
  \cup { call[q].state : q \in { r \in mu.w : call[r].state.ID = id } }

\* what a GetRocketByID holds after its read: not found, or a whole value
GetIsWhole(p) ==
  IF call[p].ok THEN call[p].rocket \in HandedToSave(call[p].id)
  ELSE call[p].rocket = ZeroState

\* what a ListAllRockets has collected is the map's entry for each key it has
\* passed, once each; at the end of the range these are all the keys
ListIsSnapshot(p) ==
  /\ call[p].iter \subseteq DOMAIN rockets
  /\ Len(call[p].states) = Cardinality(call[p].iter)
  /\ { call[p].states[i] : i \in 1..Len(call[p].states) }
       = { rockets[k] : k \in call[p].iter }

\* C6 (StoreSpec): store call atomicity.  Under every interleaving of
\* SaveRocket, GetRocketByID and ListAllRockets calls a writer holds the
\* mutex alone; GetRocketByID yields not-found or a value that was handed
\* whole to a SaveRocket for that identifier; ListAllRockets collects, and at
\* the end of its range holds, exactly the entries of the map as it is at
\* that instant.
C6_StoreAtomicity ==
  /\ Exclusion
  /\ \A p \in Procs :
       /\ (pc[p] \in {"GetRUnlock", "done"} /\ call[p].op = "GetRocketByID")
            => GetIsWhole(p)
       /\ pc[p] = "ListRange" => ListIsSnapshot(p)

\* a list has ranged over the map and still holds the mutex, while a writer
\* with another value for a listed rocket waits for it
C6_Witness ==
  \E p, q \in Procs :
    /\ pc[p] = "ListRange" /\ Len(call[p].states) = 1
    /\ call[p].iter = DOMAIN rockets
    /\ pc[q] = "SaveLock" /\ call[q].state.ID \in DOMAIN rockets
    /\ call[q].state # rockets[call[q].state.ID]
    /\ mu.r = {p}

\* the state p's call found stored for its channel, the zero state if none
Before(p) == Lookup(entry, Channel(p))

\* C7 (SeqSpec): launch transition.  A RocketLaunched message that passes
\* the sequencing check leaves stored: Type, CurrentSpeed and Mission of the
\* payload, Status LAUNCHED, the message's number and time; for an
\* identifier not seen before the stored state is exactly these values, the
\* message's channel as ID, and no Reason.
C7_LaunchTransition ==
  \A p \in Procs :
    (Applied(p) /\ Kind(p) = MessageTypeLaunched) =>
      LET m == call[p].msg
          st == rockets[Channel(p)]
          launched == [ID |-> m.Metadata.Channel,
                       Type |-> Deref(m.Message.Type),
                       CurrentSpeed |-> Deref(m.Message.LaunchSpeed),
                       Mission |-> Deref(m.Message.Mission),
                       Status |-> "LAUNCHED",
                       Reason |-> Nil,
                       LastUpdateTime |-> m.Metadata.MessageTime,
                       LastProcessedMessageNumber |-> m.Metadata.MessageNumber]
      IN /\ st = [launched EXCEPT !.Reason = st.Reason]
         /\ ~Has(entry, Channel(p)) => st = launched

\* a launch on an identifier not seen before
C7_Witness ==
  \E p \in Procs :
    /\ Applied(p) /\ Kind(p) = MessageTypeLaunched
    /\ ~Has(entry, Channel(p))
    /\ rockets[Channel(p)].Status = "LAUNCHED"
    /\ rockets[Channel(p)].Type = "Falcon-9"

\* the kinds and amounts of two messages saved one after the other for id,
\* SpeedIncreased then SpeedDecreased, and the speed they started from
IncreaseThenDecrease(id, i) ==
  /\ saved[id][i].msg.Metadata.MessageType = MessageTypeSpeedIncreased
  /\ saved[id][i + 1].msg.Metadata.MessageType = MessageTypeSpeedDecreased
  /\ saved[id][i].msg.Metadata.MessageNumber < saved[id][i + 1].msg.Metadata.MessageNumber

SpeedBefore(id, i) == IF i = 1 THEN 0 ELSE saved[id][i - 1].state.CurrentSpeed

\* the values of an int64
InInt64(x) == -Pow2(IntBits - 1) <= x /\ x < Pow2(IntBits - 1)

\* C8 (SeqSpec): speed arithmetic.  An applied RocketSpeedIncreased stores
\* the previous speed plus the amount, an applied RocketSpeedDecreased the
\* previous speed minus the amount, in int64 arithmetic and without
\* clamping: where the difference is an int64 and the amount exceeds the
\* speed, the stored speed is that negative difference.  SpeedIncreased{a}
\* then SpeedDecreased{b} with increasing numbers on speed s store s + a - b.
C8_SpeedArithmetic ==
  /\ \A p \in Procs :
       LET by == Deref(call[p].msg.Message.By)
           speed == rockets[Channel(p)].CurrentSpeed
       IN /\ (Applied(p) /\ Kind(p) = MessageTypeSpeedIncreased) =>
               speed = Int64(Before(p).CurrentSpeed + by)
          /\ (Applied(p) /\ Kind(p) = MessageTypeSpeedDecreased) =>
               /\ speed = Int64(Before(p).CurrentSpeed - by)
               /\ InInt64(Before(p).CurrentSpeed - by) =>
                    speed = Before(p).CurrentSpeed - by
  /\ \A id \in IDs : \A i \in 1..(Len(saved[id]) - 1) :
       IncreaseThenDecrease(id, i) =>
         saved[id][i + 1].state.CurrentSpeed =
           Int64(SpeedBefore(id, i) + Deref(saved[id][i].msg.Message.By)
                   - Deref(saved[id][i + 1].msg.Message.By))

\* an increase by 2 and then a decrease by 3 from speed 0 leave speed -1
C8_Witness ==
  \E p \in Procs :
    /\ Applied(p) /\ Kind(p) = MessageTypeSpeedDecreased
    /\ Len(saved[Channel(p)]) = 2 /\ IncreaseThenDecrease(Channel(p), 1)
    /\ Before(p).CurrentSpeed = 2
    /\ rockets[Channel(p)].CurrentSpeed = -1

\* C9 (SeqSpec): explosion effect.  An applied RocketExploded stores speed 0,
\* Status EXPLODED and the payload's Reason, whatever speed, status and
\* reason were stored before, and leaves Type and Mission as they were.
C9_ExplosionEffect ==
  \A p \in Procs :
    (Applied(p) /\ Kind(p) = MessageTypeExploded) =>
      LET st == rockets[Channel(p)] IN
        /\ st.CurrentSpeed = 0
        /\ st.Status = "EXPLODED"
        /\ st.Reason = call[p].msg.Message.Reason
        /\ st.Type = Before(p).Type
        /\ st.Mission = Before(p).Mission

\* a launched rocket with a speed explodes
C9_Witness ==
  \E p \in Procs :
    /\ Applied(p) /\ Kind(p) = MessageTypeExploded
    /\ Before(p).Status = "LAUNCHED" /\ Before(p).CurrentSpeed # 0
    /\ rockets[Channel(p)].CurrentSpeed = 0
    /\ rockets[Channel(p)].Reason = Ptr("fuel leak")
    /\ rockets[Channel(p)].Type = "Falcon-9"

\* C10 (StoreSpec): Save/Get round trip.  A GetRocketByID(id) that reads
\* after a SaveRocket for id has completed finds the rocket, and the value it
\* reads is, in every field, the value of the last completed SaveRocket for
\* id: a later SaveRocket replaces the whole value.
C10_SaveGetRoundTrip ==
  \A p \in Procs :
    (pc[p] = "GetRUnlock" /\ call[p].op = "GetRocketByID"
       /\ saved[call[p].id] # <<>>) =>
      /\ call[p].ok
      /\ call[p].rocket = saved[call[p].id][Len(saved[call[p].id])].state

\* a read after two saves of different values for the identifier
C10_Witness ==
  \E p \in Procs :
    /\ pc[p] = "GetRUnlock" /\ call[p].op = "GetRocketByID"
    /\ Len(saved[call[p].id]) = 2
    /\ saved[call[p].id][1].state # saved[call[p].id][2].state
    /\ call[p].ok
    /\ call[p].rocket = saved[call[p].id][2].state

\* p's request to the adapter's GetRocketState has come back from the service
LookedUp(p) == pc[p] = "done" /\ call[p].http = "GetRocketState"

\* C11 (ApiSpec): not found.  After any sequence of requests, a point lookup
\* of an identifier for which no map write was ever made (no message for it
\* was applied) comes back from the service with ok false and the zero State,
\* and the adapter answers 404 not_found, not an error.
C11_NotFound ==
  \A p \in Procs :
    (LookedUp(p) /\ saved[call[p].id] = <<>>)
      => /\ ~call[p].ok
         /\ call[p].rocket = ZeroState
         /\ call[p].err = ""
         /\ Responded(p) => call[p].resp = "404"

\* a lookup of an identifier never written, in a store that holds another
\* rocket, has been answered
C11_Witness ==
  \E p \in Procs :
    /\ LookedUp(p)
    /\ Responded(p)
    /\ saved[call[p].id] = <<>>
    /\ rockets # <<>>
    /\ call[p].resp = "404"

\* p's range over the map in ListAllRockets is over: states is what the call
\* returns
Listed(p) == pc[p] = "ListRange" /\ DOMAIN rockets \ call[p].iter = {}

\* the identifiers SaveRocket has written
SavedIDs == { i \in IDs : saved[i] # <<>> }

\* C12 (StoreSpec): list completeness.  After any sequence of SaveRocket
\* calls over N distinct identifiers, repeated saves of one identifier
\* included, what ListAllRockets returns has exactly N elements: every saved
\* identifier once, with the value of its latest save; on a store nothing
\* was saved to it is empty.
C12_ListCompleteness ==
  \A p \in Procs :
    Listed(p)
      => /\ Len(call[p].states) = Cardinality(SavedIDs)
         /\ \A i \in SavedIDs :
              /\ Cardinality({ k \in 1..Len(call[p].states) : call[p].states[k].ID = i }) = 1
              /\ \E k \in 1..Len(call[p].states) :
                   call[p].states[k] = saved[i][Len(saved[i])].state
         /\ SavedIDs = {} => call[p].states = <<>>

\* a listing of a store in which one identifier was saved twice with
\* different values
C12_Witness ==
  \E p \in Procs, i \in IDs :
    /\ Listed(p)
    /\ Len(saved[i]) = 2
    /\ saved[i][1].state # saved[i][2].state
    /\ call[p].states = <<saved[i][2].state>>

\* p's call of the service's ListAllRockets has returned states; snapshot is
\* what the store's listing gave it
ListedSorted(p) == pc[p] = "done" /\ call[p].op = "Service.ListAllRockets"

\* the State field a sort key names, whatever its letter case
FieldOf(sortBy) ==
  CASE sortBy \in {"id", "ID"} -> "id"
    [] sortBy \in {"type", "Type"} -> "type"
    [] sortBy \in {"speed", "Speed"} -> "speed"
    [] sortBy \in {"mission", "Mission"} -> "mission"
    [] sortBy \in {"lastupdatetime", "lastUpdateTime"} -> "lastUpdateTime"
    [] OTHER -> "none"

Descending(sortOrder) == sortOrder \in {"desc", "DESC", "Desc"}

\* a comes before b, or ties with it, in the order of the field
FieldLeq(a, b, field) ==
  CASE field = "id" -> a.ID <= b.ID
    [] field = "type" -> StringRank(a.Type) <= StringRank(b.Type)
    [] field = "speed" -> a.CurrentSpeed <= b.CurrentSpeed
    [] field = "mission" -> StringRank(a.Mission) <= StringRank(b.Mission)
    [] field = "lastUpdateTime" -> a.LastUpdateTime <= b.LastUpdateTime

\* rs and qs hold the same rockets, each as often
IsPermutation(rs, qs) ==
  /\ Len(rs) = Len(qs)
  /\ \A k \in 1..Len(qs) :
       Cardinality({ l \in 1..Len(rs) : rs[l] = qs[k] })
         = Cardinality({ l \in 1..Len(qs) : qs[l] = qs[k] })

\* C13 (SortSpec): sort correctness.  For a sort key that names, in any
\* letter case, one of id, type, speed, mission, lastUpdateTime, the
\* service's ListAllRockets returns a permutation of the store's listing in
\* which every element comes before or ties with its successor in the order
\* of that field; with sortOrder desc, in any letter case, every element
\* comes after or ties with its successor; any other sortOrder, the empty
\* one included, gives the ascending order.
C13_SortCorrectness ==
  \A p \in Procs :
    (ListedSorted(p) /\ FieldOf(call[p].sortBy) # "none")
      => /\ IsPermutation(call[p].states, call[p].snapshot)
         /\ \A k \in 1..(Len(call[p].states) - 1) :
              IF Descending(call[p].sortOrder)
              THEN FieldLeq(call[p].states[k + 1], call[p].states[k],
                            FieldOf(call[p].sortBy))
              ELSE FieldLeq(call[p].states[k], call[p].states[k + 1],
                            FieldOf(call[p].sortBy))

\* a descending sort by speed of three rockets, two of them of equal speed,
\* has changed the order of the listing
C13_Witness ==
  \E p \in Procs :
    /\ ListedSorted(p)
    /\ call[p].sortBy = "speed"
    /\ call[p].sortOrder = "DESC"
    /\ Len(call[p].states) = 3
    /\ call[p].states # call[p].snapshot
    /\ call[p].states[1].CurrentSpeed = call[p].states[2].CurrentSpeed
    /\ call[p].states[2].CurrentSpeed > call[p].states[3].CurrentSpeed

Ingesting(p) == call[p].http = "IngestMessage"
Ingested(p) == Ingesting(p) /\ pc[p] = "done" /\ Responded(p)

\* the payload fields the kind of a request requires
RequiredFields(request) ==
  CASE request.Metadata.MessageType = GenRocketLaunched ->
         {request.Message.Type, request.Message.LaunchSpeed, request.Message.Mission}
    [] request.Metadata.MessageType = GenRocketSpeedIncreased -> {request.Message.By}
    [] request.Metadata.MessageType = GenRocketSpeedDecreased -> {request.Message.By}
    [] request.Metadata.MessageType = GenRocketMissionChanged ->
         {request.Message.NewMission}
    [] request.Metadata.MessageType = GenRocketExploded -> {request.Message.Reason}
    [] OTHER -> {}

KnownKind(request) ==
  request.Metadata.MessageType \in
    {GenRocketLaunched, GenRocketSpeedIncreased, GenRocketSpeedDecreased,
     GenRocketMissionChanged, GenRocketExploded}

LacksRequired(request) == KnownKind(request) /\ Nil \in RequiredFields(request)
WellFormed(request) == KnownKind(request) /\ Nil \notin RequiredFields(request)

\* C15 (ApiSpec): malformed input never reaches the engine.  An ingest
\* request whose payload lacks a field its kind requires is answered 400 by
\* the adapter, ProcessMessage is not called for it, and the map stays as it
\* was when the request came in.
C15_MalformedRejected ==
  \A p \in Procs :
    (Ingesting(p) /\ LacksRequired(call[p].request))
      => /\ call[p].op # "ProcessMessage"
         /\ rockets = entry
         /\ Ingested(p) => call[p].resp = "400"

\* C16 (ApiSpec): the ingest outcome hides apply and drop.  An ingest request
\* of a known kind with its required fields is answered 202, whether
\* ProcessMessage applied its message or dropped it as stale or duplicate.
C16_AcceptedEitherWay ==
  \A p \in Procs :
    (Ingested(p) /\ WellFormed(call[p].request))
      => /\ call[p].resp = "202"
         /\ Applied(p) \/ (StaleAtEntry(p) /\ rockets = entry)

\* a request whose message was dropped has been answered 202
C16_Witness ==
  \E p \in Procs :
    /\ Ingested(p)
    /\ WellFormed(call[p].request)
    /\ StaleAtEntry(p)
    /\ rockets = entry
    /\ call[p].resp = "202"

\* C17 (ApiSpec): unknown event kind.  An ingest request whose kind is none
\* of the five is answered 400 at once; ProcessMessage is never called for it
\* and the map stays as it was.
C17_UnknownKindRejected ==
  \A p \in Procs :
    (Ingesting(p) /\ ~KnownKind(call[p].request))
      => /\ pc[p] = "done"
         /\ call[p].resp = "400"
         /\ call[p].op # "ProcessMessage"
         /\ rockets = entry

\* a request of unknown kind for a rocket the store holds has been answered
C17_Witness ==
  \E p \in Procs :
    /\ Ingesting(p)
    /\ call[p].request.Metadata.MessageType = GenRocketLanded
    /\ Has(rockets, call[p].request.Metadata.Channel)
    /\ call[p].resp = "400"
    /\ rockets = entry

\* p's request to the adapter's ListRockets has its response
ListAnswered(p) == call[p].http = "ListRockets" /\ pc[p] = "done" /\ Responded(p)

\* the documented values of the query parameters; an absent parameter takes
\* its default
AllowedSortBy(sb) ==
  sb = Nil \/ Deref(sb) \in {"id", "type", "speed", "mission", "lastUpdateTime"}
AllowedSortOrder(so) == so = Nil \/ Deref(so) \in {"asc", "desc"}

\* C18 (ApiSpec): sort-key validation at the adapter.  A list query is
\* answered 200 with the rockets sorted for every sortBy among id, type,
\* speed, mission, lastUpdateTime, and answered 400 for any other sort key
\* and for any sort order other than asc and desc.
C18_SortKeyValidation ==
  \A p \in Procs :
    ListAnswered(p)
      => IF AllowedSortBy(call[p].request.SortBy)
            /\ AllowedSortOrder(call[p].request.SortOrder)
         THEN call[p].resp = "200"
         ELSE call[p].resp = "400"

\* C19 (SeqSpec): every applied message sets the stored
\* LastProcessedMessageNumber to its number and the stored LastUpdateTime to
\* its time, whatever its kind; so LastUpdateTime is the time of the message
\* applied last, and it moves backwards when a message with a higher number
\* carries an earlier time.
C19_SequenceAndTime ==
  /\ \A p \in Procs :
       (Applied(p) /\ Has(rockets, Channel(p)))
         => /\ rockets[Channel(p)].LastProcessedMessageNumber
                 = call[p].msg.Metadata.MessageNumber
            /\ rockets[Channel(p)].LastUpdateTime = call[p].msg.Metadata.MessageTime
  /\ \A i \in IDs :
       (saved[i] # <<>> /\ Has(rockets, i))
         => rockets[i].LastUpdateTime
              = saved[i][Len(saved[i])].msg.Metadata.MessageTime

\* a message with a higher number and an earlier time was applied: the stored
\* time went back
C19_Witness ==
  \E p \in Procs :
    /\ Applied(p)
    /\ Has(entry, Channel(p))
    /\ Has(rockets, Channel(p))
    /\ entry[Channel(p)].LastProcessedMessageNumber < call[p].msg.Metadata.MessageNumber
    /\ entry[Channel(p)].LastUpdateTime > call[p].msg.Metadata.MessageTime
    /\ rockets[Channel(p)].LastUpdateTime < entry[Channel(p)].LastUpdateTime

\* the state a first message leaves, by kind, from the fresh state: status
\* UNKNOWN, speed 0, empty type and mission, no reason
FirstState(msg) ==
  LET fresh == [ID |-> msg.Metadata.Channel, Type |-> "", CurrentSpeed |-> 0,
                Mission |-> "", Status |-> "UNKNOWN", Reason |-> Nil,
                LastUpdateTime |-> msg.Metadata.MessageTime,
                LastProcessedMessageNumber |-> msg.Metadata.MessageNumber]
      kind == msg.Metadata.MessageType
  IN  CASE kind = MessageTypeLaunched ->
             [fresh EXCEPT !.Type = msg.Message.Type[1],
                           !.CurrentSpeed = msg.Message.LaunchSpeed[1],
                           !.Mission = msg.Message.Mission[1],
                           !.Status = "LAUNCHED"]
        [] kind = MessageTypeSpeedIncreased ->
             [fresh EXCEPT !.CurrentSpeed = msg.Message.By[1]]
        [] kind = MessageTypeSpeedDecreased ->
             [fresh EXCEPT !.CurrentSpeed = 0 - msg.Message.By[1]]
        [] kind = MessageTypeMissionChanged ->
             [fresh EXCEPT !.Mission = msg.Message.NewMission[1]]
        [] kind = MessageTypeExploded ->
             [fresh EXCEPT !.Status = "EXPLODED", !.Reason = msg.Message.Reason]

\* C20 (LowSpec): the first message for an identifier is always applied.
\* When the map holds nothing for the identifier, ProcessMessage applies the
\* message whatever its kind and its number, 0 and negative numbers
\* included, starting from a fresh state with status UNKNOWN, speed 0, empty
\* type and mission and no reason; a first RocketSpeedIncreased by a leaves
\* status UNKNOWN and speed a.  (The message carries the payload of its
\* kind.)
C20_FirstEventApplied ==
  \A p \in Procs :
    (Returned(p) /\ ~Has(entry, Channel(p)) /\ ~Panics(call[p].msg))
      => /\ Applied(p)
         /\ Has(rockets, Channel(p))
         /\ rockets[Channel(p)] = FirstState(call[p].msg)

\* a first RocketSpeedIncreased with a negative number was applied: status
\* UNKNOWN, the speed its amount
C20_Witness ==
  \E p \in Procs :
    /\ Applied(p)
    /\ ~Has(entry, Channel(p))
    /\ Kind(p) = MessageTypeSpeedIncreased
    /\ call[p].msg.Metadata.MessageNumber < 0
    /\ Has(rockets, Channel(p))
    /\ rockets[Channel(p)].Status = "UNKNOWN"
    /\ rockets[Channel(p)].CurrentSpeed = Deref(call[p].msg.Message.By)
    /\ rockets[Channel(p)].LastProcessedMessageNumber < 0

\* p's ProcessMessage call has computed newState and hands it to SaveRocket,
\* or has saved it
HasNewState(p) == call[p].op = "ProcessMessage" /\ call[p].state.ID # 0

\* the state p's transition started from: the one it read, or the fresh one
ReadState(p) ==
  IF call[p].ok THEN call[p].rocket
  ELSE [ID |-> Channel(p), Type |-> "", CurrentSpeed |-> 0, Mission |-> "",
        Status |-> "UNKNOWN", Reason |-> Nil, LastUpdateTime |-> 0,
        LastProcessedMessageNumber |-> 0]

\* the fields a kind's transition may change, besides number and time
KindFields(kind) ==
  CASE kind = MessageTypeLaunched -> {"Type", "CurrentSpeed", "Mission", "Status"}
    [] kind = MessageTypeSpeedIncreased -> {"CurrentSpeed"}
    [] kind = MessageTypeSpeedDecreased -> {"CurrentSpeed"}
    [] kind = MessageTypeMissionChanged -> {"Mission"}
    [] kind = MessageTypeExploded -> {"CurrentSpeed", "Status", "Reason"}

FrameFields == {"ID", "Type", "CurrentSpeed", "Mission", "Status", "Reason"}

\* C21 (KindSpec): per-kind frame.  Under concurrent ProcessMessage calls, the
\* state a call hands to SaveRocket differs from the state it read (the fresh
\* state if it found none), besides number and time, only in the fields of
\* the message's kind; the identifier of a stored state is its key; and a
\* stored state with a reason has a RocketExploded message among the
\* messages written for its identifier.
C21_KindFrame ==
  /\ \A p \in Procs :
       HasNewState(p)
         => /\ call[p].state.ID = Channel(p)
            /\ \A f \in FrameFields \ KindFields(Kind(p)) :
                 call[p].state[f] = ReadState(p)[f]
  /\ \A id \in DOMAIN rockets :
       /\ rockets[id].ID = id
       /\ rockets[id].Reason # Nil
            => \E i \in 1..Len(saved[id]) :
                 saved[id][i].msg.Metadata.MessageType = MessageTypeExploded

\* a RocketMissionChanged was applied to an exploded rocket: the mission is
\* new; reason, status and speed are as they were read
C21_Witness ==
  \E p \in Procs :
    /\ Applied(p)
    /\ Kind(p) = MessageTypeMissionChanged
    /\ call[p].ok
    /\ call[p].rocket.Reason # Nil
    /\ call[p].rocket.Status = StatusExploded
    /\ call[p].state.Reason = call[p].rocket.Reason
    /\ call[p].state.Mission # call[p].rocket.Mission
    /\ Has(rockets, Channel(p))
    /\ rockets[Channel(p)] = call[p].state

\* the state of an identifier before its first message
FreshState(id) ==
  [ID |-> id, Type |-> "", CurrentSpeed |-> 0, Mission |-> "", Status |-> "UNKNOWN",
   Reason |-> Nil, LastUpdateTime |-> 0, LastProcessedMessageNumber |-> 0]

\* the state that applying msg to the state s gives
Effect(s, msg) ==
  LET t == [s EXCEPT !.LastProcessedMessageNumber = msg.Metadata.MessageNumber,
                     !.LastUpdateTime = msg.Metadata.MessageTime]
      kind == msg.Metadata.MessageType
  IN  CASE kind = MessageTypeLaunched ->
             [t EXCEPT !.Type = msg.Message.Type[1],
                       !.CurrentSpeed = msg.Message.LaunchSpeed[1],
                       !.Mission = msg.Message.Mission[1],
                       !.Status = "LAUNCHED"]
        [] kind = MessageTypeSpeedIncreased ->
             [t EXCEPT !.CurrentSpeed = Int64(s.CurrentSpeed + msg.Message.By[1])]
        [] kind = MessageTypeSpeedDecreased ->
             [t EXCEPT !.CurrentSpeed = Int64(s.CurrentSpeed - msg.Message.By[1])]
        [] kind = MessageTypeMissionChanged ->
             [t EXCEPT !.Mission = msg.Message.NewMission[1]]
        [] kind = MessageTypeExploded ->
             [t EXCEPT !.CurrentSpeed = 0, !.Status = "EXPLODED",
                       !.Reason = msg.Message.Reason]

\* in one step the map changes only under the identifier of a caller that is
\* writing in SaveRocket
OnlyOwnKey ==
  \A id \in DOMAIN rockets \cup DOMAIN rockets' :
    (Has(rockets, id) # Has(rockets', id) \/ Lookup(rockets, id) # Lookup(rockets', id))
      => \E p \in Procs :
           /\ pc[p] \in {"SaveStore", "SaveStored"}
           /\ pc'[p] # pc[p]
           /\ call[p].state.ID = id

\* the writes for id are what its messages give when processed one after
\* the other, alone
ProcessedAlone(id) ==
  \A i \in 1..Len(saved[id]) :
    LET prev == IF i = 1 THEN FreshState(id) ELSE saved[id][i - 1].state IN
      /\ i > 1 => saved[id][i].msg.Metadata.MessageNumber > prev.LastProcessedMessageNumber
      /\ saved[id][i].state = Effect(prev, saved[id][i].msg)

\* C22 (OwnSpec): cross-identifier isolation.  A step of a ProcessMessage or
\* SaveRocket call for one identifier never changes what the map holds under
\* another; and under any interleaving of concurrent ProcessMessage calls for
\* pairwise different identifiers, each identifier has the states that its
\* messages give when processed alone, in the order of their calls: no write
\* is lost across identifiers.
C22_Isolation ==
  /\ [][OnlyOwnKey]_vars
  /\ [](\A id \in IDs :
          /\ ProcessedAlone(id)
          /\ (saved[id] # <<>> /\ mu.w = {})
               => (Has(rockets, id) /\ rockets[id] = saved[id][Len(saved[id])].state))

\* two callers are in SaveRocket for different rockets at once: one has
\* written its rocket, the other waits for the mutex
C22_Witness ==
  \E p, q \in Procs :
    /\ Channel(p) # Channel(q)
    /\ pc[p] = "SaveUnlock"
    /\ pc[q] = "SaveLock"
    /\ Has(rockets, Channel(p))
    /\ ~Has(rockets, Channel(q))

\* in one step no identifier leaves the map
KeysStay == DOMAIN rockets \subseteq DOMAIN rockets'

\* p's GetRocketByID has found its identifier
Found(p) ==
  /\ call[p].op = "GetRocketByID"
  /\ pc[p] \in {"GetRUnlock", "done"}
  /\ call[p].ok

\* C23 (StoreSpec): no deletion.  Under any interleaving of SaveRocket,
\* GetRocketByID and ListAllRockets calls the set of identifiers in the map
\* only grows; from the moment a GetRocketByID has found an identifier, the
\* map holds it, so every GetRocketByID that reads it afterwards finds it and
\* every ListAllRockets that finishes its range afterwards contains it.
C23_NoDeletion ==
  /\ [][KeysStay]_vars
  /\ [](\A p \in Procs :
          Found(p)
            => /\ Has(rockets, call[p].id)
               /\ \A q \in Procs :
                    /\ (pc[q] = "GetRUnlock" /\ call[q].id = call[p].id) => call[q].ok
                    /\ Listed(q) => \E k \in 1..Len(call[q].states) :
                                      call[q].states[k].ID = call[p].id)

\* a GetRocketByID has found a rocket and has returned; since then another
\* rocket was saved, and a ListAllRockets has listed both
C23_Witness ==
  \E p, q \in Procs :
    /\ Found(p)
    /\ pc[p] = "done"
    /\ Listed(q)
    /\ Len(call[q].states) = 2
    /\ \E k \in 1..2 : call[q].states[k].ID = call[p].id

\* the messages for id handed to ProcessMessage so far: those of the calls
\* that have returned, of the completed writes and of the calls under way
Delivered(id) ==
  { msg \in completed : msg.Metadata.Channel = id }
  \cup { saved[id][i].msg : i \in 1..Len(saved[id]) }
  \cup { call[p].msg : p \in { q \in Procs : call[q].op = "ProcessMessage"
                                             /\ Channel(q) = id } }

\* the states that folding messages of M into s gives, the messages taken in
\* strictly increasing order of their numbers
RECURSIVE Folds(_, _)
Folds(s, M) ==
  {s} \cup
  UNION { Folds(Effect(s, msg),
                { later \in M : later.Metadata.MessageNumber
                                  > msg.Metadata.MessageNumber }) : msg \in M }

\* C24 (KindSpec): applied chain under concurrency.  Under any interleaving
\* of concurrent ProcessMessage calls, every state written for an identifier
\* is the fold, from the fresh state, of some of the messages delivered for
\* it, taken in strictly increasing order of their numbers and ending with
\* the message of the write, whose number is the state's
\* LastProcessedMessageNumber; so no message's effect is in a stored state
\* more than once, even when duplicates race.
C24_AppliedChain ==
  \A id \in IDs :
    \A i \in 1..Len(saved[id]) :
      LET msg == saved[id][i].msg IN
        /\ saved[id][i].state.LastProcessedMessageNumber = msg.Metadata.MessageNumber
        /\ \E s \in Folds(FreshState(id),
                          { m \in Delivered(id) : m.Metadata.MessageNumber
                                                    < msg.Metadata.MessageNumber }) :
             saved[id][i].state = Effect(s, msg)

\* two calls with the same RocketSpeedIncreased raced, both wrote, and the
\* stored speed holds the amount once
C24_Witness ==
  \E p, q \in Procs :
    /\ Raced(p, q)
    /\ call[p].msg = call[q].msg
    /\ Kind(p) = MessageTypeSpeedIncreased
    /\ Has(rockets, Channel(p))
    /\ rockets[Channel(p)].CurrentSpeed = Deref(call[p].msg.Message.By)

\* C25 (KindSpec): the status never reverts to the placeholder.  Once a
\* state with status LAUNCHED or EXPLODED was stored for an identifier, no
\* state stored for it later has status UNKNOWN, under any interleaving of
\* ProcessMessage calls.
C25_StatusNeverUnknownAgain ==
  \A id \in IDs :
    \A i, j \in 1..Len(saved[id]) :
      (i < j /\ saved[id][i].state.Status \in {StatusLaunched, StatusExploded})
        => saved[id][j].state.Status # "UNKNOWN"

\* C26 (FairSpec): no operation blocks indefinitely.  Under fair scheduling
\* of the concurrent callers, every started SaveRocket, ListAllRockets and
\* ProcessMessage call returns, and so does the GetRocketByID call inside
\* ProcessMessage; and a caller that has returned, on whatever path, holds
\* the mutex neither for writing nor for reading.
C26_EveryCallReturns ==
  /\ \A p \in Procs : (pc[p] # "idle") ~> (pc[p] = "done")
  /\ \A p \in Procs : (pc[p] = "GetRLock") ~> (pc[p] = "Decide")
  /\ [](\A p \in Procs : pc[p] \in {"idle", "done"} => p \notin mu.w \cup mu.r)

\* a ProcessMessage call waits for the mutex in SaveRocket while another
\* caller holds it for reading
C26_Witness ==
  \E p, q \in Procs :
    /\ pc[p] = "SaveLock"
    /\ call[p].op = "ProcessMessage"
    /\ q \in mu.r

====
